---- MODULE Spec2Model ----
(***************************************************************************)
(* AtomicDestructor (src/src/lib.rs) and the saturating counter            *)
(* (src/src/saturating.rs).                                                *)
(*                                                                         *)
(* One Shared Lifecycle State (one AtomicDestructor::new): the AtomicUsize *)
(* counter and the AtomicBool destroyed, shared by every handle.  Threads  *)
(* call clone, stealth_clone and drop on handles; every atomic access      *)
(* (load, compare_exchange, store) and the on_destroy call is one step.    *)
(*                                                                         *)
(* A running call is kept in the slot of the handle it builds (clone) or   *)
(* consumes (drop): pc, current and value are that call's position and     *)
(* locals.  At most NThreads calls run at the same time.                   *)
(***************************************************************************)
EXTENDS Integers, FiniteSets

\* usize::MAX, scaled down so that saturation is reached.
UsizeMax == 3
\* Number of handle slots: the original plus every clone ever made.
MaxHandles == 4
\* Number of threads, hence of calls running at the same time.
NThreads == 2
\* Number of worker threads of the clone/drop storm (P7).
NWorkers == 2

Handles == 1..MaxHandles

VARIABLES
    counter,    \* AtomicUsize behind Arc: the shared live-handle counter
    destroyed,  \* AtomicBool behind Arc: the shared destroyed flag
    hstate,     \* per handle: "unborn", "pending", "live", "dropping", "dropped"
    stealth,    \* per handle: the handle's own stealth field
    fromStealth,\* per handle: made by clone() called on a stealth handle (history)
    pc,         \* per slot: position of the call running in it ("idle": none)
    src,        \* per slot: the handle a running clone() was called on (0: none)
    current,    \* per slot: local `current` of the saturating loop
    value,      \* per slot: value returned by the saturating operation
    fired,      \* number of on_destroy invocations so far
    start,      \* the value the AtomicUsize was constructed with (history)
    peak        \* the highest value the counter has held so far (history)

vars == <<counter, destroyed, hstate, stealth, fromStealth, pc, src,
          current, value, fired, start, peak>>

shared == <<counter, destroyed, fired>>
handleVars == <<hstate, stealth, fromStealth>>
history == <<start, peak>>

\* A handle borrowed by a running clone (&self) cannot be moved into drop.
Borrowed(h) == \E n \in Handles : src[n] = h

\* The calls in progress, one thread each.
InFlight == {n \in Handles : pc[n] # "idle"}
ThreadAvailable == Cardinality(InFlight) < NThreads

\* The slot the next created handle takes.
FreeSlots == {h \in Handles : hstate[h] = "unborn" /\ pc[h] = "idle"}
NextSlot == CHOOSE h \in FreeSlots : \A g \in FreeSlots : h <= g

\* Mutant: AtomicDestructor::new with the counter at 0.
InitZero ==
    /\ counter = 0
    /\ destroyed = FALSE
    /\ hstate = [h \in Handles |-> IF h = 1 THEN "live" ELSE "unborn"]
    /\ stealth = [h \in Handles |-> FALSE]
    /\ fromStealth = [h \in Handles |-> FALSE]
    /\ pc = [h \in Handles |-> "idle"]
    /\ src = [h \in Handles |-> 0]
    /\ current = [h \in Handles |-> 0]
    /\ value = [h \in Handles |-> 0]
    /\ fired = 0
    /\ start = 0
    /\ peak = 0

\* AtomicDestructor::new
Init ==
    /\ counter = 1
    /\ destroyed = FALSE
    /\ hstate = [h \in Handles |-> IF h = 1 THEN "live" ELSE "unborn"]
    /\ stealth = [h \in Handles |-> FALSE]
    /\ fromStealth = [h \in Handles |-> FALSE]
    /\ pc = [h \in Handles |-> "idle"]
    /\ src = [h \in Handles |-> 0]
    /\ current = [h \in Handles |-> 0]
    /\ value = [h \in Handles |-> 0]
    /\ fired = 0
    /\ start = 1
    /\ peak = 1

----------------------------------------------------------------------------
\* saturating.rs

\* current + 1 and current - 1 on a usize.
WrappingAdd(a, b) == (a + b) % (UsizeMax + 1)
WrappingSub(a, b) == (a - b + UsizeMax + 1) % (UsizeMax + 1)

\* Mutant: saturating_increment without the test for usize::MAX.
IncLoadUnchecked(n) ==
    /\ pc[n] = "inc_load"
    /\ current' = [current EXCEPT ![n] = counter]
    /\ pc' = [pc EXCEPT ![n] = "inc_cas"]
    /\ UNCHANGED <<shared, handleVars, src, value>>
    /\ UNCHANGED history

\* saturating_increment: load, and the early return at usize::MAX.
IncLoad(n) ==
    /\ pc[n] = "inc_load"
    /\ current' = [current EXCEPT ![n] = counter]
    /\ IF counter = UsizeMax
         THEN /\ value' = [value EXCEPT ![n] = counter]
              /\ pc' = [pc EXCEPT ![n] = "inc_ret"]
         ELSE /\ value' = value
              /\ pc' = [pc EXCEPT ![n] = "inc_cas"]
    /\ UNCHANGED <<shared, handleVars, src>>
    /\ UNCHANGED history

\* Mutant: saturating_increment clearing the destroyed flag when it raises
\* the counter from 0.
IncCasRevive(n) ==
    /\ pc[n] = "inc_cas"
    /\ IF counter = current[n]
         THEN /\ counter' = WrappingAdd(current[n], 1)
              /\ value' = [value EXCEPT ![n] = WrappingAdd(current[n], 1)]
              /\ pc' = [pc EXCEPT ![n] = "inc_ret"]
              /\ destroyed' = IF counter = 0 THEN FALSE ELSE destroyed
         ELSE /\ counter' = counter
              /\ value' = value
              /\ pc' = [pc EXCEPT ![n] = "inc_load"]
              /\ destroyed' = destroyed
    /\ UNCHANGED <<fired, handleVars, src, current>>
    /\ start' = start
    /\ peak' = IF counter' > peak THEN counter' ELSE peak

\* Mutant: saturating_increment retrying compare_exchange with the stale
\* value, without loading again.
IncCasStale(n) ==
    /\ pc[n] = "inc_cas"
    /\ IF counter = current[n]
         THEN /\ counter' = WrappingAdd(current[n], 1)
              /\ value' = [value EXCEPT ![n] = WrappingAdd(current[n], 1)]
              /\ pc' = [pc EXCEPT ![n] = "inc_ret"]
         ELSE /\ counter' = counter
              /\ value' = value
              /\ pc' = pc
    /\ UNCHANGED <<destroyed, fired, handleVars, src, current>>
    /\ start' = start
    /\ peak' = IF counter' > peak THEN counter' ELSE peak

\* Mutant: saturating_increment storing current + 1 without comparing.
IncCasBlind(n) ==
    /\ pc[n] = "inc_cas"
    /\ counter' = WrappingAdd(current[n], 1)
    /\ value' = [value EXCEPT ![n] = WrappingAdd(current[n], 1)]
    /\ pc' = [pc EXCEPT ![n] = "inc_ret"]
    /\ UNCHANGED <<destroyed, fired, handleVars, src, current>>
    /\ start' = start
    /\ peak' = IF counter' > peak THEN counter' ELSE peak

\* saturating_increment: compare_exchange(current, current + 1).
IncCas(n) ==
    /\ pc[n] = "inc_cas"
    /\ IF counter = current[n]
         THEN /\ counter' = WrappingAdd(current[n], 1)
              /\ value' = [value EXCEPT ![n] = WrappingAdd(current[n], 1)]
              /\ pc' = [pc EXCEPT ![n] = "inc_ret"]
         ELSE /\ counter' = counter
              /\ value' = value
              /\ pc' = [pc EXCEPT ![n] = "inc_load"]
    /\ UNCHANGED <<destroyed, fired, handleVars, src, current>>
    /\ start' = start
    /\ peak' = IF counter' > peak THEN counter' ELSE peak

\* saturating_decrement: load, and the early return at 0.
DecLoad(n) ==
    /\ pc[n] = "dec_load"
    /\ current' = [current EXCEPT ![n] = counter]
    /\ IF counter = 0
         THEN /\ value' = [value EXCEPT ![n] = counter]
              /\ pc' = [pc EXCEPT ![n] = "dec_ret"]
         ELSE /\ value' = value
              /\ pc' = [pc EXCEPT ![n] = "dec_cas"]
    /\ UNCHANGED <<shared, handleVars, src>>
    /\ UNCHANGED history

\* Mutant: saturating_decrement storing current - 1 without comparing.
DecCasBlind(n) ==
    /\ pc[n] = "dec_cas"
    /\ counter' = WrappingSub(current[n], 1)
    /\ value' = [value EXCEPT ![n] = WrappingSub(current[n], 1)]
    /\ pc' = [pc EXCEPT ![n] = "dec_ret"]
    /\ UNCHANGED <<destroyed, fired, handleVars, src, current>>
    /\ UNCHANGED history

\* saturating_decrement: compare_exchange(current, current - 1).
DecCas(n) ==
    /\ pc[n] = "dec_cas"
    /\ IF counter = current[n]
         THEN /\ counter' = WrappingSub(current[n], 1)
              /\ value' = [value EXCEPT ![n] = WrappingSub(current[n], 1)]
              /\ pc' = [pc EXCEPT ![n] = "dec_ret"]
         ELSE /\ counter' = counter
              /\ value' = value
              /\ pc' = [pc EXCEPT ![n] = "dec_load"]
    /\ UNCHANGED <<destroyed, fired, handleVars, src, current>>
    /\ UNCHANGED history

----------------------------------------------------------------------------
\* lib.rs

\* The call in slot n returns: its locals go out of scope.
Finish(n) ==
    /\ pc' = [pc EXCEPT ![n] = "idle"]
    /\ src' = [src EXCEPT ![n] = 0]
    /\ current' = [current EXCEPT ![n] = 0]
    /\ value' = [value EXCEPT ![n] = 0]

\* Clone::clone is called on handle h: the call of saturating_increment.
CloneCall(h) ==
    /\ ThreadAvailable
    /\ hstate[h] = "live"
    /\ FreeSlots # {}
    /\ pc' = [pc EXCEPT ![NextSlot] = "inc_load"]
    /\ src' = [src EXCEPT ![NextSlot] = h]
    /\ hstate' = [hstate EXCEPT ![NextSlot] = "pending"]
    /\ UNCHANGED <<shared, stealth, fromStealth, current, value>>
    /\ UNCHANGED history

\* Mutant: clone() copying the stealth field of the handle it was called on.
CloneRetInherit(n) ==
    /\ pc[n] = "inc_ret"
    /\ hstate[n] = "pending"
    /\ hstate' = [hstate EXCEPT ![n] = "live"]
    /\ stealth' = [stealth EXCEPT ![n] = stealth[src[n]]]
    /\ fromStealth' = [fromStealth EXCEPT ![n] = stealth[src[n]]]
    /\ Finish(n)
    /\ UNCHANGED shared
    /\ UNCHANGED history

\* Clone::clone after saturating_increment returned: Self { stealth: false, .. }.
CloneRet(n) ==
    /\ pc[n] = "inc_ret"
    /\ hstate[n] = "pending"
    /\ hstate' = [hstate EXCEPT ![n] = "live"]
    /\ stealth' = [stealth EXCEPT ![n] = FALSE]
    /\ fromStealth' = [fromStealth EXCEPT ![n] = stealth[src[n]]]
    /\ Finish(n)
    /\ UNCHANGED <<shared>>
    /\ UNCHANGED history

\* Mutant: stealth_clone counting the handle it makes.
StealthCloneCounted(h) ==
    /\ ThreadAvailable
    /\ hstate[h] = "live"
    /\ FreeSlots # {}
    /\ counter < UsizeMax
    /\ counter' = counter + 1
    /\ hstate' = [hstate EXCEPT ![NextSlot] = "live"]
    /\ stealth' = [stealth EXCEPT ![NextSlot] = TRUE]
    /\ UNCHANGED <<destroyed, fired, fromStealth, pc, src, current, value>>
    /\ start' = start
    /\ peak' = IF counter' > peak THEN counter' ELSE peak

\* StealthClone::stealth_clone: Self { stealth: true, .. }, no atomic access.
StealthCloneOp(h) ==
    /\ ThreadAvailable
    /\ hstate[h] = "live"
    /\ FreeSlots # {}
    /\ hstate' = [hstate EXCEPT ![NextSlot] = "live"]
    /\ stealth' = [stealth EXCEPT ![NextSlot] = TRUE]
    /\ UNCHANGED <<shared, fromStealth, pc, src, current, value>>
    /\ UNCHANGED history

\* The handle is gone once drop returns.
Dropped(h) ==
    /\ hstate' = [hstate EXCEPT ![h] = "dropped"]
    /\ fromStealth' = [fromStealth EXCEPT ![h] = FALSE]
    /\ stealth' = stealth

\* Drop::drop of a stealth handle: the early return.
DropStealth(h) ==
    /\ ThreadAvailable
    /\ hstate[h] = "live"
    /\ ~Borrowed(h)
    /\ stealth[h]
    /\ Dropped(h)
    /\ UNCHANGED <<shared, pc, src, current, value>>
    /\ UNCHANGED history

\* Mutant: drop without the is_destroyed() test.
DropCallUnchecked(h) ==
    /\ ThreadAvailable
    /\ hstate[h] = "live"
    /\ ~Borrowed(h)
    /\ ~stealth[h]
    /\ hstate' = [hstate EXCEPT ![h] = "dropping"]
    /\ pc' = [pc EXCEPT ![h] = "dec_load"]
    /\ UNCHANGED <<shared, stealth, fromStealth, src, current, value>>
    /\ UNCHANGED history

\* Drop::drop of a non-stealth handle: the is_destroyed() load and its branch.
DropCall(h) ==
    /\ ThreadAvailable
    /\ hstate[h] = "live"
    /\ ~Borrowed(h)
    /\ ~stealth[h]
    /\ IF destroyed
         THEN /\ Dropped(h)
              /\ pc' = pc
         ELSE /\ hstate' = [hstate EXCEPT ![h] = "dropping"]
              /\ pc' = [pc EXCEPT ![h] = "dec_load"]
              /\ UNCHANGED <<stealth, fromStealth>>
    /\ UNCHANGED <<shared, src, current, value>>
    /\ UNCHANGED history

\* Mutant: drop storing the flag where it should invoke on_destroy.
DropCheckStoreFirst(h) ==
    /\ pc[h] = "dec_ret"
    /\ hstate[h] = "dropping"
    /\ IF value[h] = 0
         THEN /\ destroyed' = TRUE
              /\ pc' = [pc EXCEPT ![h] = "store"]
              /\ UNCHANGED <<handleVars, src, current, value>>
         ELSE /\ destroyed' = destroyed
              /\ Dropped(h)
              /\ Finish(h)
    /\ UNCHANGED <<counter, fired>>
    /\ UNCHANGED history

\* Mutant: drop invoking on_destroy without the `value == 0` test.
DropCheckAlways(h) ==
    /\ pc[h] = "dec_ret"
    /\ hstate[h] = "dropping"
    /\ fired' = fired + 1
    /\ pc' = [pc EXCEPT ![h] = "store"]
    /\ UNCHANGED <<counter, destroyed, handleVars, src, current, value>>
    /\ UNCHANGED history

\* Drop::drop after saturating_decrement returned: `if value == 0` and on_destroy().
DropCheck(h) ==
    /\ pc[h] = "dec_ret"
    /\ hstate[h] = "dropping"
    /\ IF value[h] = 0
         THEN /\ fired' = fired + 1
              /\ pc' = [pc EXCEPT ![h] = "store"]
              /\ UNCHANGED <<handleVars, src, current, value>>
         ELSE /\ fired' = fired
              /\ Dropped(h)
              /\ Finish(h)
    /\ UNCHANGED <<counter, destroyed>>
    /\ UNCHANGED history

\* Mutant: the destroying drop returning without destroyed.store(true).
DropStoreMissing(h) ==
    /\ pc[h] = "store"
    /\ destroyed' = destroyed
    /\ Dropped(h)
    /\ Finish(h)
    /\ UNCHANGED <<counter, fired>>
    /\ UNCHANGED history

\* Drop::drop: self.destroyed.store(true).
DropStore(h) ==
    /\ pc[h] = "store"
    /\ destroyed' = TRUE
    /\ Dropped(h)
    /\ Finish(h)
    /\ UNCHANGED <<counter, fired>>
    /\ UNCHANGED history

\* AtomicDestructor::counter, is_destroyed, is_stealth read through handle h:
\* every handle holds the same Arc<AtomicUsize> and Arc<AtomicBool>.
counter_of(h) == counter
is_destroyed(h) == destroyed
is_stealth(h) == stealth[h]

\* The steps of a call in progress in slot n.
Step(n) ==
    \/ IncLoad(n)
    \/ IncCas(n)
    \/ CloneRet(n)
    \/ DecLoad(n)
    \/ DecCas(n)
    \/ DropCheck(n)
    \/ DropStore(n)

\* Any thread calls any operation on any live handle.
Next ==
    \E h \in Handles :
        \/ Step(h)
        \/ CloneCall(h)
        \/ StealthCloneOp(h)
        \/ DropStealth(h)
        \/ DropCall(h)

Spec == Init /\ [][Next]_vars

----------------------------------------------------------------------------
\* The counter alone: threads call saturating_increment and
\* saturating_decrement on an AtomicUsize holding any value.

Callers == 1..NThreads

InitCounter ==
    /\ counter \in 0..UsizeMax
    /\ destroyed = FALSE
    /\ hstate = [h \in Handles |-> "unborn"]
    /\ stealth = [h \in Handles |-> FALSE]
    /\ fromStealth = [h \in Handles |-> FALSE]
    /\ pc = [h \in Handles |-> "idle"]
    /\ src = [h \in Handles |-> 0]
    /\ current = [h \in Handles |-> 0]
    /\ value = [h \in Handles |-> 0]
    /\ fired = 0
    /\ start = counter
    /\ peak = counter

\* A thread calls counter.saturating_increment(order).
IncCall(n) ==
    /\ pc[n] = "idle"
    /\ pc' = [pc EXCEPT ![n] = "inc_load"]
    /\ UNCHANGED <<shared, handleVars, src, current, value>>
    /\ UNCHANGED history

\* A thread calls counter.saturating_decrement(order).
DecCall(n) ==
    /\ pc[n] = "idle"
    /\ pc' = [pc EXCEPT ![n] = "dec_load"]
    /\ UNCHANGED <<shared, handleVars, src, current, value>>
    /\ UNCHANGED history

\* The caller takes the returned value.
SatRet(n) ==
    /\ pc[n] \in {"inc_ret", "dec_ret"}
    /\ hstate[n] = "unborn"
    /\ Finish(n)
    /\ UNCHANGED <<shared, handleVars>>
    /\ UNCHANGED history

NextCounter ==
    \E n \in Callers :
        \/ IncCall(n)
        \/ DecCall(n)
        \/ IncLoad(n)
        \/ IncCas(n)
        \/ DecLoad(n)
        \/ DecCas(n)
        \/ SatRet(n)

SpecCounter == InitCounter /\ [][NextCounter]_vars

----------------------------------------------------------------------------
\* The tally: every caller makes one call, saturating_increment or
\* saturating_decrement, all of them concurrently, and keeps what it returned.

\* The caller holds the returned value.
TallyRet(n) ==
    /\ pc[n] \in {"inc_ret", "dec_ret"}
    /\ pc' = [pc EXCEPT ![n] = IF pc[n] = "inc_ret" THEN "inc_done" ELSE "dec_done"]
    /\ UNCHANGED <<shared, handleVars, src, current, value, history>>

TallyCallers == 1..(NThreads + 1)

NextTally ==
    \E n \in TallyCallers :
        \/ IncCall(n)
        \/ DecCall(n)
        \/ IncLoad(n)
        \/ IncCas(n)
        \/ DecLoad(n)
        \/ DecCas(n)
        \/ TallyRet(n)

SpecTally == InitCounter /\ [][NextTally]_vars

----------------------------------------------------------------------------
\* P3 / tests::test_clone: N ordinary clones of a freshly constructed handle,
\* made one after the other, then the N + 1 handles are dropped in any order:
\* one drop after the other, or by up to NThreads threads at once.

NoDropYet == \A g \in Handles : hstate[g] \notin {"dropping", "dropped"}
Created == {g \in Handles : hstate[g] # "unborn"}

\* let t_n = t.clone(), while N + 1 stays within the counter's range.
SeqClone(h) ==
    /\ InFlight = {}
    /\ NoDropYet
    /\ Cardinality(Created) < UsizeMax
    /\ CloneCall(h)

\* drop(t_n), once the clones are made.
SeqDrop(h) ==
    /\ \A g \in Handles : hstate[g] # "pending"
    /\ DropCall(h)

NextSeq ==
    \E h \in Handles :
        \/ Step(h)
        \/ SeqClone(h)
        \/ SeqDrop(h)

SpecSeq == Init /\ [][NextSeq]_vars

----------------------------------------------------------------------------
\* P7: NWorkers threads each clone the original handle and drop their own
\* clone, concurrently; the original is dropped after all of them.

WorkerSlots == 2..(NWorkers + 1)

\* A worker that has not cloned yet calls original.clone().
WorkerClone ==
    /\ hstate[1] = "live"
    /\ \E g \in WorkerSlots : hstate[g] = "unborn"
    /\ CloneCall(1)

\* A worker drops the clone it made.
WorkerDrop(h) ==
    /\ h \in WorkerSlots
    /\ DropCall(h)

\* After joining every worker: drop(original).
MainDrop ==
    /\ \A g \in WorkerSlots : hstate[g] = "dropped"
    /\ DropCall(1)

NextStorm ==
    \/ WorkerClone
    \/ MainDrop
    \/ \E h \in Handles :
        \/ Step(h)
        \/ WorkerDrop(h)

SpecStorm == Init /\ [][NextStorm]_vars

----------------------------------------------------------------------------
\* clone() is never called on a stealth handle.

PlainClone(h) ==
    /\ ~stealth[h]
    /\ CloneCall(h)

NextPlain ==
    \E h \in Handles :
        \/ Step(h)
        \/ PlainClone(h)
        \/ StealthCloneOp(h)
        \/ DropStealth(h)
        \/ DropCall(h)

SpecPlain == Init /\ [][NextPlain]_vars

----------------------------------------------------------------------------
\* A fair scheduler: a call in progress is not left waiting forever.

FairSpec == Spec /\ \A n \in Handles : WF_vars(Step(n))

----------------------------------------------------------------------------
\* Claims

\* Handles that take part in the counting and are not dropped yet.
NonStealthAlive(h) == hstate[h] \in {"pending", "live", "dropping"} /\ ~stealth[h]
Quiescent == InFlight = {}

\* C1: on_destroy is invoked at most once per Shared Lifecycle State, under
\* every interleaving of clone, stealth_clone and drop.
C1_DestroyAtMostOnce == fired <= 1

\* The storm is over: every worker's clone and the original are dropped.
StormDone ==
    /\ Quiescent
    /\ \A h \in WorkerSlots \cup {1} : hstate[h] = "dropped"

\* C2: after the storm (every worker cloned the original and dropped its
\* clone, then the original was dropped) the counter is 0, the destroyed flag
\* is set and on_destroy was invoked exactly once.
C2_StormExactlyOnce ==
    StormDone => (counter = 0 /\ destroyed /\ fired = 1)
C2_Witness == StormDone /\ fired = 1

\* Every handle made is dropped.
SeqDone ==
    /\ Quiescent
    /\ \A h \in Handles : hstate[h] \in {"unborn", "dropped"}
\* The drop of g has decremented the counter to a value above 0.
DecrementedAbove0(g) ==
    hstate[g] = "dropping" /\ pc[g] = "dec_ret" /\ value[g] # 0

\* C3: N sequential clones, then N + 1 drops in any order: on_destroy is
\* invoked exactly once, by the drop whose decrement took the counter from 1
\* to 0, which is the last one; no earlier drop invokes it or sets the flag.
C3_CountingCorrectness ==
    /\ fired <= 1
    /\ SeqDone => fired = 1 /\ destroyed /\ counter = 0
    /\ \A h \in Handles : pc[h] = "store" =>
          /\ current[h] = 1 /\ value[h] = 0 /\ fired = 1
          /\ \A g \in Handles \ {h} :
                hstate[g] \in {"unborn", "dropped"} \/ DecrementedAbove0(g)
    /\ destroyed =>
          /\ fired = 1
          /\ \A g \in Handles :
                hstate[g] \in {"unborn", "dropped"} \/ DecrementedAbove0(g)
    /\ (fired = 1 /\ ~destroyed) => \E h \in Handles : pc[h] = "store"
C3_Witness ==
    /\ SeqDone
    /\ Cardinality(Created) = UsizeMax
    /\ fired = 1

\* C4: on_destroy is never invoked while another non-stealth handle of the
\* same state is still alive (not yet passed to drop).
C4_NoEarlyDestruction ==
    [][fired' > fired =>
          \A g \in Handles : ~(hstate[g] = "live" /\ ~stealth[g])]_vars

\* C5: whenever every non-stealth handle has been dropped and no call is in
\* progress, on_destroy has been invoked and the destroyed flag is set,
\* however many stealth handles are still alive.
C5_StealthKeepsNothingAlive ==
    (Quiescent /\ \A h \in Handles : ~NonStealthAlive(h))
        => (fired >= 1 /\ destroyed)
C5_Witness ==
    /\ Quiescent
    /\ \A h \in Handles : ~NonStealthAlive(h)
    /\ \E h \in Handles : hstate[h] = "live" /\ stealth[h]
    /\ destroyed

\* C6: a drop that has invoked on_destroy is one whose own decrement changed
\* the counter from 1 to 0; a drop whose decrement found the counter at 0
\* does not invoke it.
C6_OnlyOwnTransition ==
    \A h \in Handles : pc[h] = "store" => (current[h] = 1 /\ value[h] = 0)

\* The step is a stealth_clone making handle n / the drop of stealth handle h.
IsStealthClone(n) ==
    hstate[n] = "unborn" /\ hstate'[n] = "live" /\ stealth'[n]
IsStealthDrop(h) ==
    hstate[h] = "live" /\ stealth[h] /\ hstate'[h] # "live"

\* C7: stealth_clone and the drop of a stealth handle leave the counter and
\* the destroyed flag unchanged and invoke no callback.
C7_StealthInvisible ==
    [][(\E h \in Handles : IsStealthClone(h) \/ IsStealthDrop(h))
          => (counter' = counter /\ destroyed' = destroyed /\ fired' = fired
              /\ pc' = pc)]_vars
C7_Witness ==
    /\ \E h \in Handles : hstate[h] = "dropped" /\ stealth[h]
    /\ \E h \in Handles : hstate[h] = "live" /\ stealth[h]
    /\ destroyed
    /\ counter > 0

\* C8: clone() called on a stealth handle increments the counter by 1 (below
\* the maximum) and returns a non-stealth handle, and the drop of that handle,
\* while the state is not destroyed, decrements the counter by 1.
C8_StealthNotInherited ==
    /\ [](\A h \in Handles : fromStealth[h] => ~stealth[h])
    /\ [][\A n \in Handles :
            /\ (pc[n] = "inc_cas" /\ pc'[n] = "inc_ret" /\ stealth[src[n]])
                  => (counter' = counter + 1 /\ value'[n] = counter')
            /\ (pc[n] = "inc_load" /\ pc'[n] = "inc_ret" /\ stealth[src[n]])
                  => (counter = UsizeMax /\ counter' = counter)
            /\ (hstate[n] = "pending" /\ hstate'[n] = "live" /\ stealth[src[n]])
                  => (~stealth'[n] /\ fromStealth'[n])
            /\ (fromStealth[n] /\ hstate[n] = "live" /\ hstate'[n] # "live"
                  /\ ~destroyed)
                  => (hstate'[n] = "dropping" /\ pc'[n] = "dec_load")
            /\ (fromStealth[n] /\ pc[n] = "dec_load" /\ pc'[n] # "dec_load"
                  /\ counter > 0)
                  => pc'[n] = "dec_cas"
            /\ (fromStealth[n] /\ pc[n] = "dec_cas" /\ pc'[n] = "dec_ret")
                  => (counter' = counter - 1 /\ value'[n] = counter')
       ]_vars
C8_Witness ==
    \E h \in Handles :
        /\ fromStealth[h]
        /\ pc[h] = "dec_ret"
        /\ value[h] = current[h] - 1
        /\ counter = value[h]

\* C9: a drop that starts once the destroyed flag is true, of a stealth
\* handle or not, returns without invoking on_destroy (and without touching
\* the shared state), whatever clones were made in between.
C9_IdempotentDestroy ==
    [][\A h \in Handles :
          (destroyed /\ hstate[h] = "live" /\ hstate'[h] # "live")
             => (hstate'[h] = "dropped" /\ pc'[h] = "idle"
                 /\ fired' = fired /\ counter' = counter /\ destroyed')]_vars
C9_Witness ==
    /\ destroyed
    /\ Quiescent
    /\ counter > 0
    /\ \A h \in Handles : ~NonStealthAlive(h)

\* C10: the counter stays within [0, usize::MAX] and no step wraps around;
\* saturating_increment at usize::MAX returns usize::MAX and changes nothing,
\* saturating_decrement at 0 returns 0 and changes nothing.
C10_CounterBounds ==
    /\ [](counter \in 0..UsizeMax)
    /\ [][/\ counter' \in {counter - 1, counter, counter + 1}
          /\ \A n \in Handles :
                /\ (pc[n] = "inc_load" /\ pc'[n] # "inc_load"
                      /\ counter = UsizeMax)
                      => (pc'[n] = "inc_ret" /\ value'[n] = UsizeMax
                          /\ counter' = UsizeMax)
                /\ (pc[n] = "dec_load" /\ pc'[n] # "dec_load" /\ counter = 0)
                      => (pc'[n] = "dec_ret" /\ value'[n] = 0 /\ counter' = 0)
                /\ (pc[n] = "inc_cas" /\ pc'[n] = "inc_ret")
                      => (counter < UsizeMax /\ counter' = counter + 1
                          /\ value'[n] = counter')
                /\ (pc[n] = "dec_cas" /\ pc'[n] = "dec_ret")
                      => (counter > 0 /\ counter' = counter - 1
                          /\ value'[n] = counter')
         ]_vars
C10_Witness ==
    \E n, m \in Handles :
        /\ pc[n] = "inc_ret" /\ current[n] = UsizeMax /\ value[n] = UsizeMax
        /\ pc[m] = "dec_ret" /\ current[m] = 0 /\ value[m] = 0

\* The calls of the tally that returned, and those that found a boundary.
IncDone == {n \in TallyCallers : pc[n] = "inc_done"}
DecDone == {n \in TallyCallers : pc[n] = "dec_done"}
TallyQuiet == \A n \in TallyCallers : pc[n] \in {"idle", "inc_done", "dec_done"}
FoundBoundary(n) ==
    \/ pc[n] = "inc_done" /\ current[n] = UsizeMax
    \/ pc[n] = "dec_done" /\ current[n] = 0
\* The returned calls in one order: each started from the value the one
\* before it installed, the first from the start value, the last left the
\* counter's value.
OneTotalOrder ==
    LET done == IncDone \cup DecDone
        k == Cardinality(done)
    IN  IF k = 0 THEN counter = start
        ELSE \E f \in [1..k -> done] :
                /\ \A i, j \in 1..k : f[i] = f[j] => i = j
                /\ current[f[1]] = start
                /\ \A i \in 1..(k - 1) : current[f[i + 1]] = value[f[i]]
                /\ value[f[k]] = counter

\* C11: j increments and k decrements, interleaved in any way, none finding
\* the counter at a boundary, leave the counter at c + j - k; each call
\* returned the value its own compare_exchange installed, and the returned
\* values fit one total order of the counter's transitions.
C11_NoLostUpdates ==
    (TallyQuiet /\ \A n \in TallyCallers : ~FoundBoundary(n)) =>
        /\ counter = start + Cardinality(IncDone) - Cardinality(DecDone)
        /\ \A n \in IncDone : value[n] = current[n] + 1
        /\ \A n \in DecDone : value[n] = current[n] - 1
        /\ OneTotalOrder
C11_Witness ==
    /\ \A n \in TallyCallers : pc[n] \in {"inc_done", "dec_done"} /\ ~FoundBoundary(n)
    /\ Cardinality(IncDone) >= 2
    /\ Cardinality(DecDone) >= 1
    /\ \E n, m \in IncDone : value[n] # value[m]

\* The live handles that are not stealth.
LiveNonStealth == {g \in Handles : hstate[g] = "live" /\ ~stealth[g]}

\* C12: while the state is not destroyed, the counter never reached
\* usize::MAX and no clone or drop is in progress, counter() read through any
\* live handle, stealth or not, is the number of live non-stealth handles.
C12_CounterIsLiveCount ==
    (~destroyed /\ peak < UsizeMax /\ Quiescent) =>
        \A h \in Handles :
            hstate[h] = "live" => counter_of(h) = Cardinality(LiveNonStealth)
C12_Witness ==
    /\ ~destroyed
    /\ peak < UsizeMax
    /\ Quiescent
    /\ Cardinality(LiveNonStealth) = 2
    /\ \E h \in Handles : hstate[h] = "live" /\ is_stealth(h)
    /\ \E h \in Handles : hstate[h] = "dropped" /\ ~stealth[h]

\* The drops that invoked on_destroy and have not stored the flag yet.
Storing == {h \in Handles : pc[h] = "store"}

\* C13: once a drop has invoked on_destroy and completed, is_destroyed() is
\* true through every remaining handle, stealth handles and handles cloned
\* from them afterwards included.
C13_DestroyedVisibleToAll ==
    fired > Cardinality(Storing) =>
        \A h \in Handles : hstate[h] \in {"pending", "live", "dropping"} => is_destroyed(h)
C13_Witness ==
    /\ fired > Cardinality(Storing)
    /\ \E h \in Handles : hstate[h] = "live" /\ is_stealth(h) /\ is_destroyed(h)
    /\ \E h \in Handles :
          hstate[h] = "live" /\ ~is_stealth(h) /\ fromStealth[h] /\ is_destroyed(h)

\* The state right after AtomicDestructor::new: one handle, nothing called.
FreshOnly ==
    /\ hstate[1] = "live"
    /\ \A h \in Handles \ {1} : hstate[h] = "unborn"
    /\ Quiescent

\* C14: the handle returned by new has counter() = 1, is_destroyed() = false
\* and is_stealth() = false, and construction invoked no callback.
C14_FreshHandle ==
    FreshOnly =>
        /\ counter_of(1) = 1
        /\ ~is_destroyed(1)
        /\ ~is_stealth(1)
        /\ fired = 0
C14_Witness ==
    /\ FreshOnly
    /\ counter_of(1) = 1
    /\ ~is_destroyed(1)
    /\ ~is_stealth(1)
    /\ ENABLED DropCall(1)

\* C15: on_destroy is invoked before the flag is stored: destroyed = true
\* implies on_destroy was invoked, and the flag is set only by a drop that
\* has invoked the callback.
C15_CallbackBeforeFlag ==
    /\ [](destroyed => fired >= 1)
    /\ [][destroyed' # destroyed =>
            \E h \in Handles :
                /\ pc[h] = "store"
                /\ pc'[h] = "idle"
                /\ hstate'[h] = "dropped"
                /\ fired >= 1
                /\ fired' = fired]_vars
C15_Witness ==
    /\ destroyed
    /\ fired = 1
    /\ counter = 0
    /\ Quiescent

\* C16: a drop of a non-stealth handle that reads destroyed = true changes
\* nothing shared: the counter is not decremented, even when it is above 0,
\* the flag stays and no callback runs.
C16_DropAfterDestroyNoOp ==
    [][\A h \in Handles :
          (hstate[h] = "live" /\ ~is_stealth(h) /\ is_destroyed(h) /\ hstate'[h] # "live") =>
              /\ hstate'[h] = "dropped"
              /\ counter' = counter
              /\ destroyed' = destroyed
              /\ fired' = fired
              /\ pc' = pc]_vars
C16_Witness ==
    /\ destroyed
    /\ Quiescent
    /\ counter = 2
    /\ Cardinality(LiveNonStealth) = 1

\* A compare_exchange of slot n failed and its loop goes round again.
Retries(n) ==
    \/ pc[n] = "inc_cas" /\ pc'[n] = "inc_load"
    \/ pc[n] = "dec_cas" /\ pc'[n] = "dec_load"

\* C17: under a fair scheduler every call in progress returns; a call in
\* progress can always take its next step, whatever the other threads do
\* (none waits on another); and a saturating loop goes round again only
\* when the counter no longer holds the value the call loaded.
C17_EveryCallReturns ==
    /\ <>[](\A n \in Handles : pc[n] = "idle")
    /\ [](\A n \in Handles : pc[n] # "idle" => ENABLED Step(n))
    /\ [][\A n \in Handles : Retries(n) => counter # current[n]]_vars
C17_Witness ==
    \E n, m \in Handles :
        /\ n # m
        /\ pc[n] = "inc_load"
        /\ current[n] > 0
        /\ current[n] # counter
        /\ pc[m] = "dec_ret"
        /\ ENABLED Step(n)

\* C18: the destroyed flag is monotone: false at construction, written only
\* by the store of true in the destroying drop, and once true it stays true,
\* also when a clone of a surviving stealth handle raises the counter above
\* 0 again.
C18_FlagMonotone ==
    /\ ~destroyed
    /\ [][destroyed => destroyed']_vars
    /\ [][destroyed' # destroyed =>
            /\ destroyed' = TRUE
            /\ \E h \in Handles : pc[h] = "store" /\ pc'[h] = "idle"]_vars
C18_Witness ==
    /\ destroyed
    /\ Quiescent
    /\ counter >= 1
    /\ \E h \in Handles : hstate[h] = "live" /\ ~stealth[h] /\ fromStealth[h]
    /\ \E h \in Handles : hstate[h] = "live" /\ stealth[h]

\* Handle g still counts: a non-stealth handle not dropped, or in a drop
\* that has not decremented yet.
StillCounted(g) ==
    /\ ~stealth[g]
    /\ \/ hstate[g] \in {"pending", "live"}
       \/ hstate[g] = "dropping" /\ pc[g] \in {"dec_load", "dec_cas"}

\* C19: when clone() is never called on a stealth handle and the counter
\* never reaches usize::MAX, under every interleaving the counter, once 0,
\* stays 0, on_destroy is invoked at most once, and only by the drop of the
\* last live non-stealth handle.
C19_PlainExactlyOnce ==
    /\ [](peak < UsizeMax => fired <= 1)
    /\ [][(peak' < UsizeMax /\ counter = 0) => counter' = 0]_vars
    /\ [][(peak < UsizeMax /\ fired' # fired) =>
            \E h \in Handles :
                /\ pc[h] = "dec_ret"
                /\ pc'[h] = "store"
                /\ ~stealth[h]
                /\ counter = 0
                /\ \A g \in Handles \ {h} : ~StillCounted(g)]_vars
C19_Witness ==
    /\ fired = 1
    /\ destroyed
    /\ counter = 0
    /\ peak = UsizeMax - 1
    /\ Quiescent
    /\ \E h \in Handles : hstate[h] = "live" /\ stealth[h]

====
